---- MODULE Spec2Model ----
(***************************************************************************)
(* Model of the convex-polygon kernel of wildmap/geo: orientation          *)
(* arithmetic (Vector.Cross, CrossProduct, IsConvex), Triangle, and the    *)
(* Convex polygon that is assembled by MergeTriangle and queried by three  *)
(* containment algorithms.                                                 *)
(*                                                                         *)
(* Go slices are 0-based; sequences here are 1-based.  At(s, i) reads the  *)
(* Go element s[i].  In the polygon, segment and circle parts coordinates  *)
(* stay far below the integer width, so no product wraps there; the        *)
(* fixed-width part computes on bit vectors of the real width.             *)
(***************************************************************************)
EXTENDS Integers, Sequences, FiniteSets, TLC

\* ------------------------------------------------------------------ bounds
\* The mesh has NumVerts vertices; a polygon may come to hold all of them.
NumVerts == 5

MaxVerts == NumVerts

\* ------------------------------------------------------------- value types
Coord(x, z) == [X |-> x, Z |-> z]

Vertice(i, c) == [Index |-> i, Coord |-> c]

\* The mesh builder gives every vertex a unique index.  The vertices are the
\* first NumVerts points of the quadrant in diagonal order:
\* (0,0) (1,0) (0,1) (2,0) (1,1) (0,2) (3,0) ...
IndexOf(c) == ((c.X + c.Z) * (c.X + c.Z + 1)) \div 2 + c.Z + 1

Coords == {c \in {Coord(x, z) : x \in 0..NumVerts, z \in 0..NumVerts} : IndexOf(c) <= NumVerts}

Verts == {Vertice(IndexOf(c), c) : c \in Coords}

\* Query points: the bounding square of the vertices.
Extent == CHOOSE m \in 0..NumVerts : (\E c \in Coords : c.X = m) /\ (\A c \in Coords : c.X <= m)

QueryCoords == {Coord(x, z) : x \in 0..Extent, z \in 0..Extent}

At(s, i) == s[i + 1]

Reverse(s) == [i \in 1..Len(s) |-> s[Len(s) + 1 - i]]

Abs(n) == IF n < 0 THEN -n ELSE n

\* Go's integer division truncates toward zero.
GoDiv(a, b) ==
  IF (a >= 0) = (b > 0) THEN Abs(a) \div Abs(b) ELSE -(Abs(a) \div Abs(b))

\* A nil slice, and the result of an operation that returns nothing.
Nil == <<>>

\* ----------------------------------------------------------------- vectors
NewVector(start, end) == [X |-> end.X - start.X, Z |-> end.Z - start.Z]

NewVectorByCoord(p) == [X |-> p.X, Z |-> p.Z]

Cross(v, vec) == v.X * vec.Z - v.Z * vec.X

LengthSquared(v) == v.X * v.X + v.Z * v.Z

\* a.Length() <= b.Length(): the square root is monotone, and exact enough
\* to separate distinct integers of this size, so the squares decide it.
LengthLeq(a, b) == LengthSquared(a) <= LengthSquared(b)

\* ------------------------------------------------------------- orientation
\* CrossProduct with the collinear case folded into the positive one.
CrossProductNoZero(p1, p2, p3) ==
  LET ax == p2.Coord.X - p1.Coord.X
      az == p2.Coord.Z - p1.Coord.Z
      bx == p3.Coord.X - p2.Coord.X
      bz == p3.Coord.Z - p2.Coord.Z
      cp == ax * bz - az * bx
  IN  IF cp >= 0 THEN 1 ELSE -1

CrossProduct(p1, p2, p3) ==
  LET ax == p2.Coord.X - p1.Coord.X
      az == p2.Coord.Z - p1.Coord.Z
      bx == p3.Coord.X - p2.Coord.X
      bz == p3.Coord.Z - p2.Coord.Z
      cp == ax * bz - az * bx
  IN  IF cp > 0 THEN 1 ELSE IF cp < 0 THEN -1 ELSE 0

\* IsConvex with the collinear case counted as a counter-clockwise turn.
IsConvexCollinearPositive(vertices) ==
  LET numPoints == Len(vertices)
      turn(i) ==
        Cross(NewVector(At(vertices, i).Coord,
                        At(vertices, (i + 1) % numPoints).Coord),
              NewVector(At(vertices, i).Coord,
                        At(vertices, (i + 2) % numPoints).Coord))
      positiveFlag == \E i \in 0..(numPoints - 1) : turn(i) >= 0
      negativeFlag == \E i \in 0..(numPoints - 1) : ~(turn(i) >= 0)
  IN  positiveFlag # negativeFlag

IsConvex(vertices) ==
  LET numPoints == Len(vertices)
      turn(i) ==
        Cross(NewVector(At(vertices, i).Coord,
                        At(vertices, (i + 1) % numPoints).Coord),
              NewVector(At(vertices, i).Coord,
                        At(vertices, (i + 2) % numPoints).Coord))
      positiveFlag == \E i \in 0..(numPoints - 1) : turn(i) > 0
      negativeFlag == \E i \in 0..(numPoints - 1) : ~(turn(i) > 0)
  IN  positiveFlag # negativeFlag

\* ---------------------------------------------------------------- triangle
Triangle(i, v0, v1, v2) == [Index |-> i, Vertices |-> <<v0, v1, v2>>]

TriangleIsCoordInside(t, p) ==
  LET pa == NewVector(p, At(t.Vertices, 0).Coord)
      pb == NewVector(p, At(t.Vertices, 1).Coord)
      pc == NewVector(p, At(t.Vertices, 2).Coord)
      b1 == Cross(pa, pb) >= 0
      b2 == Cross(pb, pc) >= 0
      b3 == Cross(pc, pa) >= 0
  IN  IF b1 # b2 THEN FALSE ELSE b2 = b3

\* ------------------------------------------------------------------ convex
\* NewConvex: the polygon of one triangle.
NewConvex(t) ==
  [Vertices |-> <<At(t.Vertices, 0), At(t.Vertices, 1), At(t.Vertices, 2)>>,
   MergeTriangles |-> <<t>>]

\* InsertAfter with the tail copied from index+2: one old vertex is lost and
\* the last slot of the new list keeps its zero value.
InsertAfterSkipping(vs, index, p3) ==
  SubSeq(vs, 1, index + 1) \o p3 \o SubSeq(vs, index + 3, Len(vs)) \o
    (IF index + 2 <= Len(vs) THEN <<Vertice(0, Coord(0, 0))>> ELSE <<>>)

\* newVertices of the first branch: Vertices[0..index], p3, Vertices[index+1:].
InsertAfter(vs, index, p3) ==
  SubSeq(vs, 1, index + 1) \o p3 \o SubSeq(vs, index + 2, Len(vs))

\* MergeAt without the convexity check on the second attempt.
MergeAtUnchecked(vs, index, p1, p2, p3) ==
  LET insert == \/ index # 0
                \/ At(vs, index + 1).Index = p2.Index
                \/ At(vs, index + 1).Index = p1.Index
      cand(q) == IF insert THEN InsertAfter(vs, index, q) ELSE vs \o q
      r == Reverse(p3)
  IN  IF IsConvex(cand(p3)) THEN [ok |-> TRUE, Vertices |-> cand(p3), p3 |-> p3]
      ELSE [ok |-> TRUE, Vertices |-> cand(r), p3 |-> r]

\* MergeAt that always appends the new vertices at the end of the list.
MergeAtAppend(vs, index, p1, p2, p3) ==
  LET r == Reverse(p3)
  IN  IF IsConvex(vs \o p3) THEN [ok |-> TRUE, Vertices |-> vs \o p3, p3 |-> p3]
      ELSE IF IsConvex(vs \o r) THEN [ok |-> TRUE, Vertices |-> vs \o r, p3 |-> r]
      ELSE [ok |-> FALSE, Vertices |-> vs, p3 |-> Reverse(r)]

\* MergeAt that reverses p3 only once when both attempts fail.
MergeAtOneReversal(vs, index, p1, p2, p3) ==
  LET insert == \/ index # 0
                \/ At(vs, index + 1).Index = p2.Index
                \/ At(vs, index + 1).Index = p1.Index
      cand(q) == IF insert THEN InsertAfter(vs, index, q) ELSE vs \o q
      r == Reverse(p3)
  IN  IF IsConvex(cand(p3)) THEN [ok |-> TRUE, Vertices |-> cand(p3), p3 |-> p3]
      ELSE IF IsConvex(cand(r)) THEN [ok |-> TRUE, Vertices |-> cand(r), p3 |-> r]
      ELSE [ok |-> FALSE, Vertices |-> vs, p3 |-> r]

\* The body run for the first vertex that matches p1 or p2, at Go index `index`.
\* Two attempts, the second with p3 reversed in place; a third reversal after
\* the second failure restores the caller's slice.
MergeAt(vs, index, p1, p2, p3) ==
  LET insert == \/ index # 0
                \/ At(vs, index + 1).Index = p2.Index
                \/ At(vs, index + 1).Index = p1.Index
      cand(q) == IF insert THEN InsertAfter(vs, index, q) ELSE vs \o q
      r == Reverse(p3)
  IN  IF IsConvex(cand(p3)) THEN [ok |-> TRUE, Vertices |-> cand(p3), p3 |-> p3]
      ELSE IF IsConvex(cand(r)) THEN [ok |-> TRUE, Vertices |-> cand(r), p3 |-> r]
      ELSE [ok |-> FALSE, Vertices |-> vs, p3 |-> Reverse(r)]

\* MergeTriangle(p1, p2, p3) on the vertex list vs: the result, the vertex
\* list afterwards and the caller's p3 slice afterwards.
MergeTriangle(vs, p1, p2, p3) ==
  LET found == {i \in 0..(Len(vs) - 1) :
                  At(vs, i).Index = p1.Index \/ At(vs, i).Index = p2.Index}
      index == CHOOSE i \in found : \A j \in found : i <= j
  IN  IF found = {} THEN [ok |-> FALSE, Vertices |-> vs, p3 |-> p3]
      ELSE MergeAt(vs, index, p1, p2, p3)

\* CounterClockWiseSort: the vertex list afterwards.
CounterClockWiseSort(vs) ==
  IF CrossProduct(At(vs, 0), At(vs, 1), At(vs, 2)) < 0 THEN Reverse(vs) ELSE vs

\* GetVectors: the position vectors of the (sorted) vertex list.
GetVectors(vs) ==
  LET sorted == CounterClockWiseSort(vs)
  IN  [i \in 1..Len(sorted) |-> NewVectorByCoord(sorted[i].Coord)]

\* IsCoordInside: the linear half-plane scan.
IsCoordInside(vs, p) ==
  LET numOfVertice == Len(vs)
      isCounterClockwise ==
        Cross(NewVector(At(vs, 0).Coord, At(vs, 1).Coord),
              NewVector(At(vs, 0).Coord, p)) > 0
      side(i) ==
        Cross(NewVector(At(vs, i).Coord, At(vs, (i + 1) % numOfVertice).Coord),
              NewVector(At(vs, i).Coord, p)) > 0
  IN  \A i \in 1..(numOfVertice - 1) : side(i) = isCounterClockwise

\* The ray-casting loop of IsCoordInside1 from index i on, isIn being the
\* parity so far.  j is the predecessor of i, cyclically.
RECURSIVE RayLoop(_, _, _, _)
RayLoop(vs, p, i, isIn) ==
  IF i >= Len(vs) THEN isIn
  ELSE
    LET sz == Len(vs)
        j == IF i = 0 THEN sz - 1 ELSE i - 1
        vi == At(vs, i)
        vj == At(vs, j)
        xmin == IF vi.Coord.X > vj.Coord.X THEN vj.Coord.X ELSE vi.Coord.X
        xmax == IF vi.Coord.X > vj.Coord.X THEN vi.Coord.X ELSE vj.Coord.X
        zmin == IF vi.Coord.Z > vj.Coord.Z THEN vj.Coord.Z ELSE vi.Coord.Z
        zmax == IF vi.Coord.Z > vj.Coord.Z THEN vi.Coord.Z ELSE vj.Coord.Z
        xt == GoDiv((vj.Coord.X - vi.Coord.X) * (p.Z - vi.Coord.Z),
                    vj.Coord.Z - vi.Coord.Z) + vi.Coord.X
    IN  IF vj.Coord.Z = vi.Coord.Z
        THEN IF p.Z = vi.Coord.Z /\ xmin <= p.X /\ p.X <= xmax
             THEN TRUE
             ELSE RayLoop(vs, p, i + 1, isIn)
        ELSE IF xt = p.X /\ zmin <= p.Z /\ p.Z <= zmax
             THEN TRUE
             ELSE IF p.X < xt /\ zmin <= p.Z /\ p.Z < zmax
                  THEN RayLoop(vs, p, i + 1, ~isIn)
                  ELSE RayLoop(vs, p, i + 1, isIn)

\* IsCoordInside1: the result and the vertex list afterwards (the list is
\* sorted in place unless the single-triangle fast path is taken).
IsCoordInside1(vs, mts, p) ==
  IF Len(mts) = 1
  THEN [ret |-> TriangleIsCoordInside(At(mts, 0), p), Vertices |-> vs]
  ELSE LET sorted == CounterClockWiseSort(vs)
       IN  [ret |-> RayLoop(sorted, p, 0, FALSE), Vertices |-> sorted]

\* The binary search of IsCoordInside2: the final pair <<s, e>>.
RECURSIVE BinarySearch(_, _, _, _, _)
BinarySearch(vs, target, isCounterClockwise, s, e) ==
  IF e = s + 1 THEN <<s, e>>
  ELSE LET m == (s + e) \div 2
       IN  IF (CrossProduct(target, At(vs, m), At(vs, 0)) > 0) = isCounterClockwise
           THEN BinarySearch(vs, target, isCounterClockwise, s, m)
           ELSE BinarySearch(vs, target, isCounterClockwise, m, e)

IsCoordInside2(vs, p) ==
  LET numOfVertice == Len(vs)
      target == [Index |-> 0, Coord |-> p]
      vec1 == NewVector(At(vs, 0).Coord, At(vs, 1).Coord)
      vec2 == NewVector(At(vs, 0).Coord, At(vs, numOfVertice - 1).Coord)
      vec2Coord == NewVector(At(vs, 0).Coord, p)
      cp1 == Cross(vec1, vec2Coord)
      cp2 == Cross(vec2, vec2Coord)
      isCounterClockwise == cp1 > 0
      se == BinarySearch(vs, target, isCounterClockwise, 1, numOfVertice - 1)
      vec3 == NewVector(At(vs, se[1]).Coord, At(vs, se[2]).Coord)
      vecS2Coord == NewVector(At(vs, se[1]).Coord, p)
  IN  IF \/ cp1 = 0 /\ LengthLeq(vec2Coord, vec1)
         \/ cp2 = 0 /\ LengthLeq(vec2Coord, vec2)
      THEN TRUE
      ELSE IF (cp1 > 0) = (cp2 > 0) THEN FALSE
      ELSE (Cross(vec3, vecS2Coord) > 0) = isCounterClockwise

\* TriangleHasCoord: the index of the first merged triangle holding p, or -1.
TriangleHasCoord(mts, p) ==
  LET hits == {k \in 0..(Len(mts) - 1) : TriangleIsCoordInside(At(mts, k), p)}
  IN  IF hits = {} THEN -1
      ELSE At(mts, CHOOSE k \in hits : \A l \in hits : k <= l).Index

\* CheckConvex: the vertex list is convex and its index set is covered by,
\* and covers, the vertex indices of the merged triangles.
CheckConvex(vs, mts) ==
  LET vers == {vs[i].Index : i \in 1..Len(vs)}
      tris == {mts[k].Vertices[n].Index : k \in 1..Len(mts), n \in 1..3}
  IN  /\ IsConvex(vs)
      /\ \A key \in vers : key \in tris
      /\ Cardinality(vers) = Cardinality(vers \cup tris)

\* The matches of GetNeighborPoints from c.Vertices[i] on: for every vertex
\* of c in order, the positions j of vertices (of t2) with the same index.
RECURSIVE PointsIndexs(_, _, _)
PointsIndexs(vs, vertices, i) ==
  IF i >= Len(vs) THEN <<>>
  ELSE LET js == {j \in 0..(Len(vertices) - 1) : At(vs, i).Index = At(vertices, j).Index}
           RECURSIVE Asc(_)
           Asc(S) == IF S = {} THEN <<>>
                     ELSE LET lo == CHOOSE x \in S : \A y \in S : x <= y
                          IN  <<lo>> \o Asc(S \ {lo})
       IN  Asc(js) \o PointsIndexs(vs, vertices, i + 1)

\* GetNeighborPoints without the swap of first and second.
GetNeighborPointsNoSwap(vs, vertices) ==
  LET numOfVecs == Len(vertices)
      pointsIndexs == PointsIndexs(vs, vertices, 0)
      first == At(pointsIndexs, 0)
  IN  IF Len(pointsIndexs) = 2
      THEN [i \in 1..numOfVecs |-> At(vertices, (first + (i - 1)) % numOfVecs)]
      ELSE Nil

\* GetNeighborPoints(t2): vertices is t2.GetVertices().
GetNeighborPoints(vs, vertices) ==
  LET numOfVecs == Len(vertices)
      pointsIndexs == PointsIndexs(vs, vertices, 0)
      first == IF (At(pointsIndexs, 0) + 1) % numOfVecs # At(pointsIndexs, 1)
               THEN At(pointsIndexs, 1)
               ELSE At(pointsIndexs, 0)
  IN  IF Len(pointsIndexs) = 2
      THEN [i \in 1..numOfVecs |-> At(vertices, (first + (i - 1)) % numOfVecs)]
      ELSE Nil

\* ------------------------------------------------------------ state machine
VARIABLES
  Vertices,        \* c.Vertices
  MergeTriangles,  \* c.MergeTriangles
  op,              \* the operation that ran last
  args,            \* the arguments of the last query
  ret              \* what the last operation returned

vars == <<Vertices, MergeTriangles, op, args, ret>>

\* The triangles of the mesh builder: three distinct vertices, not collinear.
Triangles ==
  {Triangle(1, a, b, c) : a \in Verts, b \in Verts, c \in Verts} \cap
  {t \in [Index : {1}, Vertices : [1..3 -> Verts]] :
     CrossProduct(t.Vertices[1], t.Vertices[2], t.Vertices[3]) # 0}

\* Sequences of n distinct vertices taken from S.
RECURSIVE DistinctSeqs(_, _)
DistinctSeqs(S, n) ==
  IF n = 0 THEN {<<>>}
  ELSE UNION {{<<v>> \o q : q \in DistinctSeqs(S \ {v}, n - 1)} : v \in S}

VertexSet(vs) == {vs[i] : i \in 1..Len(vs)}

\* The p3 arguments offered to MergeTriangle: the vertices of the neighbour
\* that the polygon does not have yet, at most as many as still fit.
NewVertices(vs) ==
  UNION {DistinctSeqs(Verts \ VertexSet(vs), n) : n \in 1..(MaxVerts - Len(vs))}

\* The polygon types handed to GetNeighborPoints: a Triangle, or a Convex of
\* up to MaxVerts vertices; either way a vertex list that passes IsConvex.
Polygons ==
  {q \in UNION {DistinctSeqs(Verts, n) : n \in 3..MaxVerts} :
     /\ IsConvex(q)
     /\ \E i \in 0..(Len(q) - 1) :
          CrossProduct(At(q, i), At(q, (i + 1) % Len(q)), At(q, (i + 2) % Len(q))) # 0}

\* The sequential caller is idle between calls; a call leaves its name, its
\* arguments and its result behind until the caller has taken them.
Idle == op = "idle"

Init ==
  \E t \in Triangles :
    /\ Vertices = NewConvex(t).Vertices
    /\ MergeTriangles = NewConvex(t).MergeTriangles
    /\ op = "idle"
    /\ args = <<>>
    /\ ret = Nil

Return ==
  /\ ~Idle
  /\ op' = "idle"
  /\ args' = <<>>
  /\ ret' = Nil
  /\ UNCHANGED <<Vertices, MergeTriangles>>

\* args keeps p1, p2 and newVertices as passed, and then the caller's
\* newVertices slice as the call leaves it (it is reversed in place).
MergeTriangleCall(p1, p2, p3) ==
  /\ Idle
  /\ LET r == MergeTriangle(Vertices, p1, p2, p3)
     IN  Vertices' = r.Vertices /\ ret' = r.ok /\ args' = <<p1, p2, p3, r.p3>>
  /\ op' = "MergeTriangle"
  /\ UNCHANGED MergeTriangles

\* The external merge driver: after a successful merge, and before the next
\* one, it records a triangle of the neighbour in MergeTriangles: here the
\* first vertex that no recorded triangle has yet, with its two neighbours.
Covered(mts) == {mts[k].Vertices[n].Index : k \in 1..Len(mts), n \in 1..3}

Uncovered(vs, mts) == {i \in 0..(Len(vs) - 1) : At(vs, i).Index \notin Covered(mts)}

AppendMergeTriangle ==
  /\ Idle
  /\ Uncovered(Vertices, MergeTriangles) # {}
  /\ LET n == Len(Vertices)
         m == CHOOSE i \in Uncovered(Vertices, MergeTriangles) :
                \A j \in Uncovered(Vertices, MergeTriangles) : i <= j
     IN  MergeTriangles' =
           Append(MergeTriangles,
                  Triangle(Len(MergeTriangles) + 1,
                           At(Vertices, (m + n - 1) % n),
                           At(Vertices, m),
                           At(Vertices, (m + 1) % n)))
  /\ op' = "append"
  /\ args' = <<>>
  /\ ret' = Nil
  /\ UNCHANGED Vertices

CounterClockWiseSortCall ==
  /\ Idle
  /\ Vertices' = CounterClockWiseSort(Vertices)
  /\ op' = "CounterClockWiseSort"
  /\ args' = <<>>
  /\ ret' = Nil
  /\ UNCHANGED MergeTriangles

GetVectorsCall ==
  /\ Idle
  /\ Vertices' = CounterClockWiseSort(Vertices)
  /\ ret' = GetVectors(Vertices)
  /\ op' = "GetVectors"
  /\ args' = <<>>
  /\ UNCHANGED MergeTriangles

IsCoordInsideCall(p) ==
  /\ Idle
  /\ ret' = IsCoordInside(Vertices, p)
  /\ op' = "IsCoordInside"
  /\ args' = <<p>>
  /\ UNCHANGED <<Vertices, MergeTriangles>>

IsCoordInside1Call(p) ==
  /\ Idle
  /\ ret' = IsCoordInside1(Vertices, MergeTriangles, p).ret
  /\ Vertices' = IsCoordInside1(Vertices, MergeTriangles, p).Vertices
  /\ op' = "IsCoordInside1"
  /\ args' = <<p>>
  /\ UNCHANGED MergeTriangles

IsCoordInside2Call(p) ==
  /\ Idle
  /\ ret' = IsCoordInside2(Vertices, p)
  /\ op' = "IsCoordInside2"
  /\ args' = <<p>>
  /\ UNCHANGED <<Vertices, MergeTriangles>>

\* Triangle.IsCoordInside on the k-th merged triangle.
TriangleIsCoordInsideCall(k, p) ==
  /\ Idle
  /\ ret' = TriangleIsCoordInside(At(MergeTriangles, k), p)
  /\ op' = "Triangle.IsCoordInside"
  /\ args' = <<p, k>>
  /\ UNCHANGED <<Vertices, MergeTriangles>>

TriangleHasCoordCall(p) ==
  /\ Idle
  /\ ret' = TriangleHasCoord(MergeTriangles, p)
  /\ op' = "TriangleHasCoord"
  /\ args' = <<p>>
  /\ UNCHANGED <<Vertices, MergeTriangles>>

CheckConvexCall ==
  /\ Idle
  /\ ret' = CheckConvex(Vertices, MergeTriangles)
  /\ op' = "CheckConvex"
  /\ args' = <<>>
  /\ UNCHANGED <<Vertices, MergeTriangles>>

GetNeighborPointsCall(t2) ==
  /\ Idle
  /\ ret' = GetNeighborPoints(Vertices, t2)
  /\ op' = "GetNeighborPoints"
  /\ args' = <<t2>>
  /\ UNCHANGED <<Vertices, MergeTriangles>>

Next ==
  \/ Return
  \/ /\ Uncovered(Vertices, MergeTriangles) = {}
     /\ \E p1 \in Verts : \E p2 \in {v \in Verts : v.Index > p1.Index} :
          \E p3 \in NewVertices(Vertices) : MergeTriangleCall(p1, p2, p3)
  \/ AppendMergeTriangle
  \/ CounterClockWiseSortCall
  \/ GetVectorsCall
  \/ \E p \in QueryCoords : IsCoordInsideCall(p)
  \/ \E p \in QueryCoords : IsCoordInside1Call(p)
  \/ \E p \in QueryCoords : IsCoordInside2Call(p)
  \/ \E k \in 0..(Len(MergeTriangles) - 1), p \in QueryCoords :
       TriangleIsCoordInsideCall(k, p)
  \/ \E p \in QueryCoords : TriangleHasCoordCall(p)
  \/ CheckConvexCall

Spec == Init /\ [][Next]_vars

\* GetNeighborPoints of a fresh Convex against every polygon.
NextNeighbor ==
  \/ Return
  \/ \E t2 \in Polygons : GetNeighborPointsCall(t2)

SpecNeighbor == Init /\ [][NextNeighbor]_vars

\* CrossProduct on every triple of vertices.
InitCross ==
  /\ Vertices = <<>>
  /\ MergeTriangles = <<>>
  /\ op = "idle"
  /\ args \in [1..3 -> Verts]
  /\ ret = Nil

CrossProductCall ==
  /\ Idle
  /\ ret' = CrossProduct(args[1], args[2], args[3])
  /\ op' = "CrossProduct"
  /\ UNCHANGED <<Vertices, MergeTriangles, args>>

NextCross == CrossProductCall

SpecCross == InitCross /\ [][NextCross]_vars

\* ---------------------------------------------------- geometric reference
\* Twice the signed area of the triangle a, b, p.
Orient(a, b, p) == (b.X - a.X) * (p.Z - a.Z) - (b.Z - a.Z) * (p.X - a.X)

\* p lies in the closed triangle a, b, c (of non-zero area), whatever its
\* winding: p is not strictly left of one side and strictly right of another.
InTriangle(a, b, c, p) ==
  LET d == {Orient(a, b, p), Orient(b, c, p), Orient(c, a, p)}
  IN  Orient(a, b, c) # 0 /\ ~((\E x \in d : x < 0) /\ (\E x \in d : x > 0))

\* p lies in the closed convex hull of the vertices of vs, that is inside the
\* convex polygon or on its boundary.
InHull(vs, p) ==
  \E i, j, k \in 1..Len(vs) : InTriangle(vs[i].Coord, vs[j].Coord, vs[k].Coord, p)

\* The three points lie on one line a*x + b*z = c.
Collinear(p1, p2, p3) ==
  \E a, b \in (-Extent)..Extent : \E c \in (-2 * Extent * Extent)..(2 * Extent * Extent) :
    /\ a # 0 \/ b # 0
    /\ \A q \in {p1, p2, p3} : a * q.X + b * q.Z = c

IndexSet(vs) == {vs[i].Index : i \in 1..Len(vs)}

\* r is o rotated cyclically, in o's direction.
IsRotation(r, o) ==
  /\ Len(r) = Len(o)
  /\ \E k \in 0..(Len(o) - 1) :
       \A i \in 0..(Len(o) - 1) : At(r, i) = At(o, (k + i) % Len(o))

ContainmentOps == {"IsCoordInside", "IsCoordInside1", "IsCoordInside2"}

\* ------------------------------------------------------------------ claims
\* C1: for every polygon built by NewConvex and successful MergeTriangle
\* calls and every point p, IsCoordInside(p), IsCoordInside1(p) and
\* IsCoordInside2(p) return the same answer.
C1_ThreeAlgorithmsAgree ==
  op \in ContainmentOps =>
    /\ ret = IsCoordInside(Vertices, args[1])
    /\ ret = IsCoordInside1(Vertices, MergeTriangles, args[1]).ret
    /\ ret = IsCoordInside2(Vertices, args[1])

\* C2: Convex.IsCoordInside(p) is boundary-inclusive: on a convex polygon it
\* returns true iff p lies in the interior or on the boundary.
C2_BoundaryInclusive ==
  (op = "IsCoordInside" /\ IsConvex(Vertices)) => (ret = InHull(Vertices, args[1]))

\* C3: Triangle.IsCoordInside(p) is boundary-inclusive for every
\* non-degenerate triangle in its stored vertex order.
C3_TriangleBoundaryInclusive ==
  op = "Triangle.IsCoordInside" =>
    LET t == At(MergeTriangles, args[2])
        a == At(t.Vertices, 0).Coord
        b == At(t.Vertices, 1).Coord
        c == At(t.Vertices, 2).Coord
    IN  Orient(a, b, c) # 0 => (ret = InTriangle(a, b, c, args[1]))

\* C4: MergeTriangle is all-or-nothing.  When it returns true the committed
\* list satisfies IsConvex and has len(old) + len(newVertices) entries; when
\* it returns false the vertex list is exactly the list before the call.
C4_MergeAllOrNothing ==
  [][op' = "MergeTriangle" =>
       \A p1 \in Verts, p2 \in Verts : \A p3 \in NewVertices(Vertices) :
         \/ /\ ret' => /\ IsConvex(Vertices')
                        /\ Len(Vertices') = Len(Vertices) + Len(p3)
            /\ ~ret' => Vertices' = Vertices
         \/ ~MergeTriangleCall(p1, p2, p3)]_vars

\* A merge of two new vertices has been committed.
C4_Witness ==
  op = "MergeTriangle" /\ ret = TRUE /\ Len(Vertices) = 5

\* C5: in every state reached by NewConvex, MergeTriangle,
\* CounterClockWiseSort, GetVectors and the containment queries, the vertex
\* list satisfies IsConvex.
C5_VerticesAlwaysConvex == IsConvex(Vertices)

\* C6: after NewConvex and after every successful MergeTriangle the vertex
\* indices of Vertices are those of the triangles in MergeTriangles.
C6_IndexSetsEqual ==
  ((op = "idle" /\ Len(Vertices) = 3) \/ (op = "MergeTriangle" /\ ret = TRUE)) =>
    IndexSet(Vertices) = Covered(MergeTriangles)

\* C6 as amended: the two index sets are equal after NewConvex; a successful
\* MergeTriangle adds exactly the indices of newVertices to the vertex list,
\* a failed one none, and neither touches MergeTriangles.
C6_MergeAddsNewIndices ==
  /\ CheckConvex(Vertices, MergeTriangles)
  /\ [][op' = "MergeTriangle" =>
         \A p1 \in Verts, p2 \in Verts : \A p3 \in NewVertices(Vertices) :
           \/ /\ MergeTriangles' = MergeTriangles
              /\ ret' => IndexSet(Vertices') = IndexSet(Vertices) \cup IndexSet(p3)
              /\ ~ret' => IndexSet(Vertices') = IndexSet(Vertices)
           \/ ~MergeTriangleCall(p1, p2, p3)]_vars

\* A successful merge has left vertices that no merged triangle has.
C6_Witness ==
  /\ op = "MergeTriangle" /\ ret = TRUE
  /\ IndexSet(Vertices) # Covered(MergeTriangles)
  /\ ~CheckConvex(Vertices, MergeTriangles)

QueryOps ==
  ContainmentOps \cup
  {"GetVectors", "GetNeighborPoints", "TriangleHasCoord", "Triangle.IsCoordInside",
   "CheckConvex"}

\* C7: no query operation writes the polygon's vertex list, so a finished
\* polygon can be shared by concurrent callers.
C7_QueriesDoNotWrite ==
  [][op' \in QueryOps => Vertices' = Vertices]_vars

\* C8: Convex.IsCoordInside(p) returns the same result on the vertex list
\* and on the same list in reversed order.
C8_WindingAgnostic ==
  op = "IsCoordInside" => (ret = IsCoordInside(Reverse(Vertices), args[1]))

SharedAdjacent(vs, other) ==
  \E i \in 0..(Len(other) - 1) :
    {At(other, i).Index, At(other, (i + 1) % Len(other)).Index} =
      IndexSet(vs) \cap IndexSet(other)

RECURSIVE Pow2(_)
Pow2(n) == IF n = 0 THEN 1 ELSE 2 * Pow2(n - 1)

\* 2^l <= a / b, for positive a and b and any integer l.
Pow2Leq(l, a, b) == IF l >= 0 THEN b * Pow2(l) <= a ELSE b <= a * Pow2(-l)

\* The binary exponent of a / b: the l with 2^l <= a / b < 2^(l+1).
FloorLog2(a, b) == CHOOSE l \in -12..12 : Pow2Leq(l, a, b) /\ ~Pow2Leq(l + 1, a, b)

\* (x * 2^n) % m
RECURSIVE DoubleMod(_, _, _)
DoubleMod(x, n, m) ==
  IF n = 0 \/ x < 0 THEN x
  ELSE IF n >= 8 THEN DoubleMod((256 * x) % m, n - 8, m)
  ELSE DoubleMod((2 * x) % m, n - 1, m)

\* For positive a, b, c with c * a a multiple of b: the float64 product
\* c * (a / b) is smaller than the integer c * a / b.  The quotient a / b is
\* (q + r / b) * 2^-s with q a 53-bit integer; it is rounded to q or q + 1.
\* The product is then off by c * (up * b - r) / b units of 2^-s, and it is
\* rounded to the float64 below the integer when it is more than half a
\* spacing below it.
RoundsBelow(c, a, b) ==
  LET k   == (c * a) \div b
      lt  == FloorLog2(a, b)
      x   == DoubleMod(a % (2 * b), 52 - lt, 2 * b)
      r   == x % b
      odd == x >= b
      up  == IF 2 * r > b \/ (2 * r = b /\ odd) THEN 1 ELSE 0
      m   == FloorLog2(k, 1)
      e   == IF k = Pow2(m) THEN m - 2 - lt ELSE m - 1 - lt
      lhs == c * (r - up * b)
  IN  IF e < 0 THEN lhs * Pow2(-e) > b ELSE lhs > b * Pow2(e)

Sign(n) == IF n < 0 THEN -1 ELSE 1

\* Go: int64(float64(c) * (float64(a) / float64(b))), for b # 0.  The
\* conversion truncates toward zero.
TruncMulQuot(c, a, b) ==
  IF a = 0 \/ c = 0 THEN 0
  ELSE LET sg == Sign(c) * Sign(a) * Sign(b)
           ca == Abs(c)
           aa == Abs(a)
           ab == Abs(b)
       IN  IF (ca * aa) % ab # 0 THEN sg * ((ca * aa) \div ab)
           ELSE sg * ((ca * aa) \div ab - (IF RoundsBelow(ca, aa, ab) THEN 1 ELSE 0))

\* ---------------------------------------------------------------- segments
\* Segment end points: x in -1..SegMax, z in -1..1.
SegMax == 2

SegCoords == {Coord(x, z) : x \in -1..SegMax, z \in -1..1}

min(a, b) == IF a <= b THEN a ELSE b

max(a, b) == IF a >= b THEN a ELSE b

\* (p1 - p3) x (p2 - p3)
cross(p1, p2, p3) == (p1.X - p3.X) * (p2.Z - p3.Z) - (p2.X - p3.X) * (p1.Z - p3.Z)

IsRectCross(p0, p1, q0, q1) ==
  /\ min(p0.X, p1.X) <= max(q0.X, q1.X)
  /\ min(q0.X, q1.X) <= max(p0.X, p1.X)
  /\ min(p0.Z, p1.Z) <= max(q0.Z, q1.Z)
  /\ min(q0.Z, q1.Z) <= max(p0.Z, p1.Z)

IsLineSegmentCross(p0, p1, q0, q1) ==
  LET b1 == cross(q1, p0, q0)
      b2 == cross(q1, p1, q0)
      a1 == cross(p1, q0, p0)
      a2 == cross(p1, q1, p0)
  IN  IF b1 = 0 \/ b2 = 0 THEN TRUE
      ELSE IF a1 = 0 \/ a2 = 0 THEN TRUE
      ELSE ((b1 < 0) # (b2 < 0)) /\ ((a1 < 0) # (a2 < 0))

NoCross == [coord |-> Coord(0, 0), ok |-> FALSE]

\* GetCrossCoord with the parameter taken along the second segment.
GetCrossCoordOtherSegment(p0, p1, q0, q1) ==
  LET v1 == NewVector(p0, p1)
      v2 == NewVector(q0, q1)
  IN  IF Cross(v1, v2) = 0 THEN NoCross
      ELSE IF IsRectCross(p0, p1, q0, q1) /\ IsLineSegmentCross(p0, p1, q0, q1)
      THEN LET num == v2.X * (p0.Z - q0.Z) - v2.Z * (p0.X - q0.X)
               den == -v2.X * v1.Z + v1.X * v2.Z
           IN  [coord |-> Coord(p0.X + TruncMulQuot(v2.X, num, den),
                                p0.Z + TruncMulQuot(v2.Z, num, den)),
                ok |-> TRUE]
      ELSE NoCross

GetCrossCoord(p0, p1, q0, q1) ==
  LET v1 == NewVector(p0, p1)
      v2 == NewVector(q0, q1)
  IN  IF Cross(v1, v2) = 0 THEN NoCross
      ELSE IF IsRectCross(p0, p1, q0, q1) /\ IsLineSegmentCross(p0, p1, q0, q1)
      THEN LET s1X == p1.X - p0.X
               s1Z == p1.Z - p0.Z
               s2X == q1.X - q0.X
               s2Z == q1.Z - q0.Z
               num == s2X * (p0.Z - q0.Z) - s2Z * (p0.X - q0.X)
               den == -s2X * s1Z + s1X * s2Z
           IN  [coord |-> Coord(p0.X + TruncMulQuot(s1X, num, den),
                                p0.Z + TruncMulQuot(s1Z, num, den)),
                ok |-> TRUE]
      ELSE NoCross

\* Two segments are drawn; each operation is applied to them.
InitSegment ==
  /\ Vertices = <<>>
  /\ MergeTriangles = <<>>
  /\ op = "idle"
  /\ args \in [1..4 -> SegCoords]
  /\ ret = Nil

IsLineSegmentCrossCall ==
  /\ Idle
  /\ ret' = IsLineSegmentCross(args[1], args[2], args[3], args[4])
  /\ op' = "IsLineSegmentCross"
  /\ UNCHANGED <<Vertices, MergeTriangles, args>>

GetCrossCoordCall ==
  /\ Idle
  /\ ret' = GetCrossCoord(args[1], args[2], args[3], args[4])
  /\ op' = "GetCrossCoord"
  /\ UNCHANGED <<Vertices, MergeTriangles, args>>

NextSegment == IsLineSegmentCrossCall \/ GetCrossCoordCall

SpecSegment == InitSegment /\ [][NextSegment]_vars

\* p lies on the closed segment from a to b.
OnSegment(a, b, p) ==
  /\ Orient(a, b, p) = 0
  /\ min(a.X, b.X) <= p.X /\ p.X <= max(a.X, b.X)
  /\ min(a.Z, b.Z) <= p.Z /\ p.Z <= max(a.Z, b.Z)

\* The closed segments p0p1 and q0q1 have a point in common: either they
\* cross at an interior point of both, or an end point of one lies on the
\* other.
SegmentsMeet(p0, p1, q0, q1) ==
  \/ /\ Orient(p0, p1, q0) * Orient(p0, p1, q1) < 0
     /\ Orient(q0, q1, p0) * Orient(q0, q1, p1) < 0
  \/ OnSegment(p0, p1, q0) \/ OnSegment(p0, p1, q1)
  \/ OnSegment(q0, q1, p0) \/ OnSegment(q0, q1, p1)

\* C11: IsLineSegmentCross(p0, p1, q0, q1) returns true exactly when the
\* segments p0p1 and q0q1 have a point in common.  Stated for segments
\* with distinct end points.
C11_CrossIffMeet ==
  (op = "IsLineSegmentCross" /\ args[1] # args[2] /\ args[3] # args[4]) =>
    (ret = SegmentsMeet(args[1], args[2], args[3], args[4]))

LineMax == 22

LineCoords == {Coord(x, z) : x \in 0..LineMax, z \in 0..1}

Dot(v, vec) == v.X * vec.X + v.Z * vec.Z

\* t = ap.Dot(&ab) / abLenSq is a float64 quotient of two integers: t < 0
\* exactly when the dot product is negative, t > 1 exactly when it exceeds
\* the squared length.
ClosestPoint(A, B, p) ==
  LET ab      == NewVector(A, B)
      ap      == NewVector(A, p)
      abLenSq == LengthSquared(ab)
      dot     == Dot(ap, ab)
  IN  IF abLenSq = 0 THEN A
      ELSE IF dot < 0 THEN A
      ELSE IF dot > abLenSq THEN B
      ELSE Coord(A.X + TruncMulQuot(ab.X, dot, abLenSq),
                 A.Z + TruncMulQuot(ab.Z, dot, abLenSq))

\* A distance is carried as its square, a fraction of two integers.
Frac(n, d) == [n |-> n, d |-> d]

FracLeq(x, y) == x.n * y.d <= y.n * x.d

FracMin(x, y) == IF FracLeq(x, y) THEN x ELSE y

\* The square of CalDstCoordToCoord.
CalDstCoordToCoord(coord1, coord2) ==
  LET dx == coord1.X - coord2.X
      dz == coord1.Z - coord2.Z
  IN  Frac(dx * dx + dz * dz, 1)

\* The square of Vector.CalCoordDst: |vec| * sin(angle between v and vec),
\* whose square is (v x vec)^2 / |v|^2.
VectorCalCoordDst(v, start, target) ==
  LET vec == NewVector(start, target)
  IN  Frac(Cross(v, vec) * Cross(v, vec), LengthSquared(v))

\* The square of Segment.CalCoordDst, for a segment with distinct end
\* points.  The guard compares ap.ab / |ab| with |ab|; the two differ by at
\* least 1 / |ab| when they differ, so it is the integer comparison of the
\* dot product with the squared length.
CalCoordDst(A, B, coord) ==
  LET a   == CalDstCoordToCoord(coord, A)
      b   == CalDstCoordToCoord(coord, B)
      dst == FracMin(a, b)
      ab  == NewVector(A, B)
      ap  == NewVector(A, coord)
  IN  IF Dot(ap, ab) > LengthSquared(ab) THEN dst
      ELSE FracMin(dst, VectorCalCoordDst(ab, A, coord))

InitPointSegment ==
  /\ Vertices = <<>>
  /\ MergeTriangles = <<>>
  /\ op = "idle"
  /\ args \in [1..3 -> LineCoords]
  /\ ret = Nil

ClosestPointCall ==
  /\ Idle
  /\ ret' = ClosestPoint(args[1], args[2], args[3])
  /\ op' = "ClosestPoint"
  /\ UNCHANGED <<Vertices, MergeTriangles, args>>

CalCoordDstCall ==
  /\ Idle
  /\ args[1] # args[2]
  /\ ret' = CalCoordDst(args[1], args[2], args[3])
  /\ op' = "CalCoordDst"
  /\ UNCHANGED <<Vertices, MergeTriangles, args>>

NextPointSegment == ClosestPointCall \/ CalCoordDstCall

SpecPointSegment == InitPointSegment /\ [][NextPointSegment]_vars

\* C13: ClosestPoint(p) = p for every integer point p on the segment, and a
\* degenerate segment (A = B) gives A.
C13_ClosestPointFixesSegment ==
  op = "ClosestPoint" =>
    /\ args[1] = args[2] => ret = args[1]
    /\ OnSegment(args[1], args[2], args[3]) => ret = args[3]

\* The square of the distance from p to the closed segment AB.
SegmentDstSq(A, B, p) ==
  LET ab == NewVector(A, B)
      ap == NewVector(A, p)
  IN  IF Dot(ap, ab) <= 0 THEN Frac(LengthSquared(ap), 1)
      ELSE IF Dot(ap, ab) >= LengthSquared(ab) THEN Frac(LengthSquared(NewVector(B, p)), 1)
      ELSE Frac(Cross(ab, ap) * Cross(ab, ap), LengthSquared(ab))

\* C14: CalCoordDst(p) is the shortest distance from p to the segment: it is
\* 0 for every p on the segment and never smaller than the distance from p
\* to the nearest point of the segment.
C14_ShortestDistance ==
  op = "CalCoordDst" =>
    /\ OnSegment(args[1], args[2], args[3]) => ret.n = 0
    /\ FracLeq(SegmentDstSq(args[1], args[2], args[3]), ret)

\* ------------------------------------------------------------------ circle
\* Polygon vertices: x in 0..CircleMax, z in 0..2.  Circle centres: one unit
\* around that, radius 1 or 2.
CircleMax == 2

PolyCoords == {Coord(x, z) : x \in 0..CircleMax, z \in 0..2}

CenterCoords == {Coord(x, z) : x \in -1..(CircleMax + 1), z \in -1..3}

Radii == 1..2

Add(v, vec) == [X |-> v.X + vec.X, Z |-> v.Z + vec.Z]

Minus(v, vec) == [X |-> v.X - vec.X, Z |-> v.Z - vec.Z]

\* Go: int64(math.Round(float64(a) / float64(b) * float64(c))), for b # 0.
\* math.Round rounds half away from zero; the exact product is a half
\* integer when 2 * c * a / b is odd, and then the float64 product decides.
RoundMulQuot(c, a, b) ==
  IF a = 0 \/ c = 0 THEN 0
  ELSE LET sg == Sign(c) * Sign(a) * Sign(b)
           ca == Abs(c)
           aa == Abs(a)
           ab == Abs(b)
           n2 == 2 * ca * aa
       IN  IF n2 % ab = 0 /\ (n2 \div ab) % 2 = 1
           THEN sg * (IF RoundsBelow(2 * ca, aa, ab)
                      THEN (ca * aa) \div ab ELSE (ca * aa) \div ab + 1)
           ELSE sg * ((n2 + ab) \div (2 * ab))

\* v.Trunc(a / b)
Trunc(v, a, b) == [X |-> RoundMulQuot(v.X, a, b), Z |-> RoundMulQuot(v.Z, a, b)]

isInsideEdge(edge, axis) ==
  IF edge.X > 0 /\ axis.Z > 0 THEN FALSE
  ELSE IF edge.X < 0 /\ axis.Z < 0 THEN FALSE
  ELSE IF edge.X = 0 /\ edge.Z > 0 /\ axis.X < 0 THEN FALSE
  ELSE IF edge.X = 0 /\ edge.Z <= 0 /\ axis.X > 0 THEN FALSE
  ELSE TRUE

\* The loop of IsInterPolygon from iteration i on.  nearestVertex = -1
\* stands for nearestDistance = math.MaxFloat64.  The compared float64
\* values are integers, so the tolerant comparisons are exact ones.
RECURSIVE InterPolygonLoop(_, _, _, _, _)
InterPolygonLoop(vectors, center, radiusSquared, i, st) ==
  IF i >= Len(vectors)
  THEN IF st.nearestVertex = 0 THEN st.nearestIsInside \/ st.lastIsInside
       ELSE st.nearestIsInside
  ELSE LET nextVertex == At(vectors, i)
           axis       == Minus(center, st.vertex)
           distance   == LengthSquared(axis) - radiusSquared
           edge       == Minus(nextVertex, st.vertex)
           edgeLengthSquared == LengthSquared(edge)
           dot        == Dot(edge, axis)
           onEdge     == edgeLengthSquared # 0 /\ dot >= 0 /\ dot <= edgeLengthSquared
           projection == Add(st.vertex, Trunc(edge, dot, edgeLengthSquared))
           axis2      == Minus(projection, center)
           isInside   == onEdge
           nearer     == st.nearestVertex = -1 \/ distance < st.nearestDistance
       IN  IF distance <= 0 THEN TRUE
           ELSE IF onEdge /\ LengthSquared(axis2) <= radiusSquared THEN TRUE
           ELSE IF onEdge /\ ~isInsideEdge(edge, axis2) THEN FALSE
           ELSE InterPolygonLoop(vectors, center, radiusSquared, i + 1,
                  [vertex          |-> nextVertex,
                   nearestDistance |-> IF nearer THEN distance ELSE st.nearestDistance,
                   nearestIsInside |-> IF nearer THEN isInside \/ st.lastIsInside
                                       ELSE st.nearestIsInside,
                   nearestVertex   |-> IF nearer THEN i ELSE st.nearestVertex,
                   lastIsInside    |-> isInside])

IsInterPolygon(c, vectors) ==
  InterPolygonLoop(vectors, NewVectorByCoord(c.Center), c.Radius * c.Radius, 0,
    [vertex          |-> At(vectors, Len(vectors) - 1),
     nearestDistance |-> 0,
     nearestIsInside |-> FALSE,
     nearestVertex   |-> -1,
     lastIsInside    |-> FALSE])

NewCirCle(center, radius) == [Center |-> center, Radius |-> radius]

\* Strictly convex polygons in counter-clockwise order, as position vectors.
CcwPolygons ==
  {s \in DistinctSeqs(PolyCoords, 3) \cup DistinctSeqs(PolyCoords, 4) :
     \A i \in 1..Len(s) :
       Orient(s[i], s[(i % Len(s)) + 1], s[((i + 1) % Len(s)) + 1]) > 0}

InitCircle ==
  /\ Vertices = <<>>
  /\ MergeTriangles = <<>>
  /\ op = "idle"
  /\ \E vectors \in CcwPolygons, center \in CenterCoords, radius \in Radii :
       args = <<NewCirCle(center, radius), vectors>>
  /\ ret = Nil

IsInterPolygonCall ==
  /\ Idle
  /\ ret' = IsInterPolygon(args[1], args[2])
  /\ op' = "IsInterPolygon"
  /\ UNCHANGED <<Vertices, MergeTriangles, args>>

NextCircle == IsInterPolygonCall

SpecCircle == InitCircle /\ [][NextCircle]_vars

\* p is in the closed convex counter-clockwise polygon vs.
InPolygon(vs, p) == \A i \in 1..Len(vs) : Orient(vs[i], vs[(i % Len(vs)) + 1], p) >= 0

\* The squared distance from p to the boundary of the polygon is below r2
\* (strictly, or not above it).
EdgeNearer(vs, p, r2) ==
  \E i \in 1..Len(vs) :
    LET d == SegmentDstSq(vs[i], vs[(i % Len(vs)) + 1], p)
    IN  d.n < r2 * d.d

EdgeWithin(vs, p, r2) ==
  \E i \in 1..Len(vs) :
    LET d == SegmentDstSq(vs[i], vs[(i % Len(vs)) + 1], p)
    IN  d.n <= r2 * d.d

\* C15: IsInterPolygon returns true when the disc and the polygon overlap
\* (the centre is in the polygon, or the boundary of the polygon comes
\* nearer to the centre than the radius), and false when they are apart (the
\* centre is outside and every edge is farther than the radius).
C15_CircleMeetsPolygon ==
  op = "IsInterPolygon" =>
    LET c  == args[1]
        vs == args[2]
        r2 == c.Radius * c.Radius
    IN  /\ (InPolygon(vs, c.Center) \/ EdgeNearer(vs, c.Center, r2)) => ret = TRUE
        /\ (~InPolygon(vs, c.Center) /\ ~EdgeWithin(vs, c.Center, r2)) => ret = FALSE

\* ------------------------------------------------------ bounding rectangle
\* Vertex coordinates of either sign: -(RectMax + 1)..RectMax on both axes.
RectMax == 1

RectCoords == {Coord(x, z) : x \in -(RectMax + 1)..RectMax, z \in -(RectMax + 1)..RectMax}

MaxInt32 == 2147483647

\* The loop of ToRect over the vertices from position i on.  The results are
\* named return values: minX and minZ are set to MaxInt32 before the loop,
\* maxX and maxZ keep the value they are declared with, 0.
RECURSIVE ToRectLoop(_, _, _)
ToRectLoop(vs, i, r) ==
  IF i >= Len(vs) THEN r
  ELSE LET v == At(vs, i)
       IN  ToRectLoop(vs, i + 1,
             [minX |-> min(v.Coord.X, r.minX),
              minZ |-> min(v.Coord.Z, r.minZ),
              maxX |-> max(v.Coord.X, r.maxX),
              maxZ |-> max(v.Coord.Z, r.maxZ)])

ToRect(vs) ==
  ToRectLoop(vs, 0, [minX |-> MaxInt32, minZ |-> MaxInt32, maxX |-> 0, maxZ |-> 0])

\* A triangle is drawn; ToRect is applied to it as a Triangle and as the
\* Convex made from it.
InitRect ==
  /\ \E t \in {u \in [1..3 -> RectCoords] : Orient(u[1], u[2], u[3]) # 0} :
       /\ Vertices = [i \in 1..3 |-> Vertice(i, t[i])]
       /\ MergeTriangles = <<Triangle(1, Vertice(1, t[1]), Vertice(2, t[2]), Vertice(3, t[3]))>>
  /\ op = "idle"
  /\ args = <<>>
  /\ ret = Nil

ConvexToRectCall ==
  /\ Idle
  /\ ret' = ToRect(Vertices)
  /\ op' = "Convex.ToRect"
  /\ UNCHANGED <<Vertices, MergeTriangles, args>>

TriangleToRectCall ==
  /\ Idle
  /\ ret' = ToRect(MergeTriangles[1].Vertices)
  /\ op' = "Triangle.ToRect"
  /\ UNCHANGED <<Vertices, MergeTriangles, args>>

NextRect == ConvexToRectCall \/ TriangleToRectCall

SpecRect == InitRect /\ [][NextRect]_vars

\* C16: ToRect returns the minimum bounding rectangle: the smallest and the
\* largest vertex coordinate on each axis, for coordinates of any sign.
C16_MinimumBoundingRect ==
  op \in {"Convex.ToRect", "Triangle.ToRect"} =>
    LET vs == IF op = "Convex.ToRect" THEN Vertices ELSE MergeTriangles[1].Vertices
        xs == {vs[i].Coord.X : i \in 1..Len(vs)}
        zs == {vs[i].Coord.Z : i \in 1..Len(vs)}
    IN  /\ ret.minX \in xs /\ \A x \in xs : ret.minX <= x
        /\ ret.maxX \in xs /\ \A x \in xs : x <= ret.maxX
        /\ ret.minZ \in zs /\ \A z \in zs : ret.minZ <= z
        /\ ret.maxZ \in zs /\ \A z \in zs : z <= ret.maxZ

\* ---------------------------------------------------------------- barycenter
\* xi * zni - xni * zi for the vertices at positions i and i + 1.
EdgeCross(vs, i) ==
  At(vs, i).Coord.X * At(vs, i + 1).Coord.Z - At(vs, i + 1).Coord.X * At(vs, i).Coord.Z

\* The first loop of GetCenterCoord1: i runs from 0 to len - 2.
RECURSIVE AreaLoop(_, _)
AreaLoop(vs, i) ==
  IF i >= Len(vs) - 1 THEN 0 ELSE EdgeCross(vs, i) + AreaLoop(vs, i + 1)

\* The second loop, for one axis: axis is "X" or "Z".
RECURSIVE CenterLoop(_, _, _)
CenterLoop(vs, i, axis) ==
  IF i >= Len(vs) - 1 THEN 0
  ELSE LET s == IF axis = "X" THEN At(vs, i).Coord.X + At(vs, i + 1).Coord.X
                ELSE At(vs, i).Coord.Z + At(vs, i + 1).Coord.Z
       IN  s * EdgeCross(vs, i) + CenterLoop(vs, i + 1, axis)

\* An integer division by zero panics.
GetCenterCoord1(vs) ==
  LET S == GoDiv(AreaLoop(vs, 0), 2)
  IN  IF 6 * S = 0 THEN [panic |-> TRUE, X |-> 0, Z |-> 0]
      ELSE [panic |-> FALSE,
            X |-> GoDiv(CenterLoop(vs, 0, "X"), 6 * S),
            Z |-> GoDiv(CenterLoop(vs, 0, "Z"), 6 * S)]

GetCenterCoord1Call ==
  /\ Idle
  /\ ret' = GetCenterCoord1(Vertices)
  /\ op' = "GetCenterCoord1"
  /\ UNCHANGED <<Vertices, MergeTriangles, args>>

NextCenter == GetCenterCoord1Call

\* The polygons are the triangles of InitRect, placed on either side of the
\* origin.
SpecCenter == InitRect /\ [][NextCenter]_vars

\* Twice the signed area of the closed polygon, and the numerators of the
\* barycenter: Cx = CentroidNum(vs, "X") / (3 * Area2(vs)).
Area2(vs) ==
  LET n == Len(vs)
      e(i) == vs[i].Coord.X * vs[(i % n) + 1].Coord.Z - vs[(i % n) + 1].Coord.X * vs[i].Coord.Z
      RECURSIVE sum(_)
      sum(i) == IF i > n THEN 0 ELSE e(i) + sum(i + 1)
  IN  sum(1)

CentroidNum(vs, axis) ==
  LET n == Len(vs)
      e(i) == vs[i].Coord.X * vs[(i % n) + 1].Coord.Z - vs[(i % n) + 1].Coord.X * vs[i].Coord.Z
      s(i) == IF axis = "X" THEN vs[i].Coord.X + vs[(i % n) + 1].Coord.X
              ELSE vs[i].Coord.Z + vs[(i % n) + 1].Coord.Z
      RECURSIVE sum(_)
      sum(i) == IF i > n THEN 0 ELSE s(i) * e(i) + sum(i + 1)
  IN  sum(1)

\* C17: for a polygon of non-zero area GetCenterCoord1 does not divide by
\* zero and returns the area-weighted barycenter of the closed polygon, to
\* within one unit on each axis.
C17_AreaWeightedBarycenter ==
  (op = "GetCenterCoord1" /\ Area2(Vertices) # 0) =>
    LET D == 3 * Area2(Vertices)
    IN  /\ ~ret.panic
        /\ Abs(ret.X * D - CentroidNum(Vertices, "X")) <= Abs(D)
        /\ Abs(ret.Z * D - CentroidNum(Vertices, "Z")) <= Abs(D)

\* ---------------------------------------------------------------- edge keys
\* Vertex indices at both ends of the range [0, KeyBase) and just above it:
\* 0..EdgeMax, KeyBase-1-EdgeMax..KeyBase-1, KeyBase..KeyBase+EdgeMax.
EdgeMax == 2

KeyBase == 10000

EdgeIndices ==
  (0..EdgeMax) \cup ((KeyBase - 1 - EdgeMax)..(KeyBase - 1)) \cup (KeyBase..(KeyBase + EdgeMax))

\* GenEdgeKey without the ordering of the two indices.
GenEdgeKeyOrdered(i, j) == KeyBase * i + j

GenEdgeKey(i, j) == IF i < j THEN KeyBase * i + j ELSE KeyBase * j + i

\* Two edges (i, j) and (k, l) are drawn.
InitEdge ==
  /\ Vertices = <<>>
  /\ MergeTriangles = <<>>
  /\ op = "idle"
  /\ args \in [1..4 -> EdgeIndices]
  /\ ret = Nil

\* The keys of (i, j), of (j, i) and of (k, l).
GenEdgeKeyCall ==
  /\ Idle
  /\ ret' = <<GenEdgeKey(args[1], args[2]), GenEdgeKey(args[2], args[1]),
              GenEdgeKey(args[3], args[4])>>
  /\ op' = "GenEdgeKey"
  /\ UNCHANGED <<Vertices, MergeTriangles, args>>

NextEdge == GenEdgeKeyCall

SpecEdge == InitEdge /\ [][NextEdge]_vars

\* C18: GenEdgeKey(i, j) = GenEdgeKey(j, i) for all i, j; and for indices in
\* [0, 10000) two pairs with the same key are the same unordered pair.
C18_EdgeKeySymmetricInjective ==
  op = "GenEdgeKey" =>
    /\ ret[1] = ret[2]
    /\ ((\A n \in 1..4 : args[n] >= 0 /\ args[n] < KeyBase) /\ ret[1] = ret[3])
         => {args[1], args[2]} = {args[3], args[4]}

\* The edge (0, 9999) and the edge (9999, 0) get one key.
C18_Witness ==
  /\ op = "GenEdgeKey"
  /\ args = <<0, KeyBase - 1, KeyBase - 1, 0>>
  /\ ret[1] = ret[3]
  /\ ret[1] = KeyBase - 1

\* ------------------------------------------------- fixed-width arithmetic
\* A fixed-width integer is its two's-complement bit vector, least
\* significant bit first: int32 has 32 bits, int64 has 64.  Sums and
\* products keep the low bits, as the Go operators do.
ZeroBits(w) == [i \in 1..w |-> 0]

\* The sum from bit i on, with carry c into bit i; acc holds the bits below.
RECURSIVE AddLoop(_, _, _, _, _)
AddLoop(a, b, i, c, acc) ==
  IF i > Len(a) \/ Len(acc) # i - 1 \/ c \notin {0, 1} THEN acc
  ELSE AddLoop(a, b, i + 1, (a[i] + b[i] + c) \div 2, Append(acc, (a[i] + b[i] + c) % 2))

AddBits(a, b) == AddLoop(a, b, 1, 0, <<>>)

NegBits(a) ==
  AddBits([i \in 1..Len(a) |-> 1 - a[i]], [i \in 1..Len(a) |-> IF i = 1 THEN 1 ELSE 0])

SubBits(a, b) == AddBits(a, NegBits(b))

ShiftLeft(a, k) == [i \in 1..Len(a) |-> IF i <= k THEN 0 ELSE a[i - k]] \o <<>>

\* Shift and add: acc holds the sum of a * 2^(j-1) over the set bits j < i
\* of b.
RECURSIVE MulLoop(_, _, _, _)
MulLoop(a, b, i, acc) ==
  IF i > Len(b) \/ Len(acc) # Len(a) THEN acc
  ELSE MulLoop(a, b, i + 1, IF b[i] = 1 THEN AddBits(ShiftLeft(a, i - 1), acc) ELSE acc)

MulBits(a, b) == MulLoop(a, b, 1, ZeroBits(Len(a)))

\* The w-bit value of a small integer n.
BitsOf(n, w) ==
  LET mag == [i \in 1..w |-> IF i <= 30 THEN (Abs(n) \div Pow2(i - 1)) % 2 ELSE 0]
  IN  IF n >= 0 THEN mag ELSE NegBits(mag)

\* -1, 0 or 1 as the value is negative, zero or positive.
SignOfBits(a) ==
  IF a[Len(a)] = 1 THEN -1
  ELSE IF \A i \in 1..Len(a) : a[i] = 0 THEN 0 ELSE 1

\* Vector.Cross and the integer part of Vector.Dot, on int64 components.
CrossInt64(v, vec) == SubBits(MulBits(v.X, vec.Z), MulBits(v.Z, vec.X))

DotInt64(v, vec) == AddBits(MulBits(v.X, vec.X), MulBits(v.Z, vec.Z))

\* CrossProduct on int32 coordinates.
CrossProductInt32(p1, p2, p3) ==
  LET ax == SubBits(p2.Coord.X, p1.Coord.X)
      az == SubBits(p2.Coord.Z, p1.Coord.Z)
      bx == SubBits(p3.Coord.X, p2.Coord.X)
      bz == SubBits(p3.Coord.Z, p2.Coord.Z)
      cp == SubBits(MulBits(ax, bz), MulBits(az, bx))
  IN  SignOfBits(cp)

\* Operands: two vectors with components -1, 0 or 1, scaled by 2^e.  The
\* scales are 0, half the width less one, and half the width less
\* ScaleBack, ..., up to half the width.
ScaleBack == 1

Units == {Coord(x, z) : x \in -1..1, z \in -1..1}

Scales(w) == {0} \cup (((w \div 2) - ScaleBack)..(w \div 2))

Scaled(c, e, w) == [X |-> ShiftLeft(BitsOf(c.X, w), e), Z |-> ShiftLeft(BitsOf(c.Z, w), e)]

\* args = <<a, b, k>>: the vectors a * 2^e and b * 2^e, with e the scale
\* that is k below half the width.
InitWidth ==
  /\ Vertices = <<>>
  /\ MergeTriangles = <<>>
  /\ op = "idle"
  /\ \E a \in Units, b \in Units, k \in 0..(ScaleBack + 1) : args = <<a, b, k>>
  /\ ret = Nil

ScaleOf(k, w) == IF k > ScaleBack THEN 0 ELSE (w \div 2) - k

VectorCrossCall ==
  /\ Idle
  /\ ret' = CrossInt64(Scaled(args[1], ScaleOf(args[3], 64), 64),
                       Scaled(args[2], ScaleOf(args[3], 64), 64))
  /\ op' = "Vector.Cross"
  /\ UNCHANGED <<Vertices, MergeTriangles, args>>

VectorDotCall ==
  /\ Idle
  /\ ret' = DotInt64(Scaled(args[1], ScaleOf(args[3], 64), 64),
                     Scaled(args[2], ScaleOf(args[3], 64), 64))
  /\ op' = "Vector.Dot"
  /\ UNCHANGED <<Vertices, MergeTriangles, args>>

\* CrossProduct of the origin, a * 2^e and (a + b) * 2^e.
CrossProductInt32Call ==
  /\ Idle
  /\ LET e  == ScaleOf(args[3], 32)
         p1 == Vertice(1, Scaled(Coord(0, 0), e, 32))
         p2 == Vertice(2, Scaled(args[1], e, 32))
         p3 == Vertice(3, Scaled(Coord(args[1].X + args[2].X, args[1].Z + args[2].Z), e, 32))
     IN  ret' = CrossProductInt32(p1, p2, p3)
  /\ op' = "CrossProductInt32"
  /\ UNCHANGED <<Vertices, MergeTriangles, args>>

NextWidth == VectorCrossCall \/ VectorDotCall \/ CrossProductInt32Call

SpecWidth == InitWidth /\ [][NextWidth]_vars

\* The w-bit integer that holds n * 2^sh exactly, for |n| <= 3; there is
\* none (<<>>) when the value is outside the width.
ExactBits(n, sh, w) ==
  LET len == IF n = 0 THEN 0 ELSE IF Abs(n) = 1 THEN 1 ELSE 2
  IN  IF n = 0 THEN ZeroBits(w)
      ELSE IF sh + len <= w - 1 THEN ShiftLeft(BitsOf(n, w), sh)
      ELSE <<>>

\* C19: Vector.Cross, Vector.Dot and CrossProduct are exact for every
\* operand of the coordinate type: the result is the integer
\* v1.X * v2.Z - v1.Z * v2.X (the dot product, the orientation sign) itself,
\* not its low bits.
C19_ExactOverWholeRange ==
  /\ op = "Vector.Cross" =>
       ret = ExactBits(Cross(args[1], args[2]), 2 * ScaleOf(args[3], 64), 64)
  /\ op = "Vector.Dot" =>
       ret = ExactBits(Dot(args[1], args[2]), 2 * ScaleOf(args[3], 64), 64)
  /\ op = "CrossProductInt32" =>
       ret = (IF Cross(args[1], args[2]) > 0 THEN 1
              ELSE IF Cross(args[1], args[2]) < 0 THEN -1 ELSE 0)

\* ----------------------------------------------------------------- raster
\* End points of the rasterized line: -LineSpan..LineSpan on both axes.
LineSpan == 2

RasterCoords == {Coord(x, z) : x \in -LineSpan..LineSpan, z \in -LineSpan..LineSpan}

\* The loop of GetBresenhamCoord from x on.
RECURSIVE BresenhamLoop(_, _, _, _, _, _, _, _, _)
BresenhamLoop(x, xend, z, err, deltax, deltaz, zstep, steep, list) ==
  IF x > xend THEN list
  ELSE LET c    == IF steep THEN Coord(z, x) ELSE Coord(x, z)
           err1 == err - deltaz
       IN  BresenhamLoop(x + 1, xend,
                         IF err1 < 0 THEN z + zstep ELSE z,
                         IF err1 < 0 THEN err1 + deltax ELSE err1,
                         deltax, deltaz, zstep, steep, Append(list, c))

\* make([]Coord, 0, n) panics when n is negative.
GetBresenhamCoord(p1, p2) ==
  LET steep  == Abs(p2.Z - p1.Z) > Abs(p2.X - p1.X)
      xs1    == IF steep THEN p1.Z ELSE p1.X
      zs1    == IF steep THEN p1.X ELSE p1.Z
      xe1    == IF steep THEN p2.Z ELSE p2.X
      ze1    == IF steep THEN p2.X ELSE p2.Z
      swapped == xs1 > xe1
      xstart == IF swapped THEN zs1 ELSE xs1
      zstart == IF swapped THEN xs1 ELSE zs1
      xend   == IF swapped THEN ze1 ELSE xe1
      zend   == IF swapped THEN xe1 ELSE ze1
      deltax == xend - xstart
      deltaz == Abs(zend - zstart)
      zstep  == IF zstart < zend THEN 1 ELSE -1
      list   == BresenhamLoop(xstart, xend, zstart, GoDiv(deltax, 2), deltax, deltaz,
                              zstep, steep, <<>>)
  IN  IF xend - xstart + 1 < 0 THEN [panic |-> TRUE, list |-> <<>>]
      ELSE [panic |-> FALSE, list |-> IF swapped THEN Reverse(list) ELSE list]

InitRaster ==
  /\ Vertices = <<>>
  /\ MergeTriangles = <<>>
  /\ op = "idle"
  /\ args \in [1..2 -> RasterCoords]
  /\ ret = Nil

GetBresenhamCoordCall ==
  /\ Idle
  /\ ret' = GetBresenhamCoord(args[1], args[2])
  /\ op' = "GetBresenhamCoord"
  /\ UNCHANGED <<Vertices, MergeTriangles, args>>

NextRaster == GetBresenhamCoordCall

SpecRaster == InitRaster /\ [][NextRaster]_vars

\* C20: GetBresenhamCoord(p1, p2) does not panic and returns the rasterized
\* line from p1 to p2 in any direction: it starts at p1, ends at p2, has
\* max(|dx|, |dz|) + 1 points, and consecutive points differ by at most 1
\* on each axis.
C20_RasterLine ==
  op = "GetBresenhamCoord" =>
    LET p1 == args[1]
        p2 == args[2]
        l  == ret.list
    IN  /\ ~ret.panic
        /\ Len(l) = max(Abs(p2.X - p1.X), Abs(p2.Z - p1.Z)) + 1
        /\ l[1] = p1
        /\ l[Len(l)] = p2
        /\ \A i \in 1..(Len(l) - 1) :
             Abs(l[i + 1].X - l[i].X) <= 1 /\ Abs(l[i + 1].Z - l[i].Z) <= 1

\* ------------------------------------------------- crossing point, outcomes
\* The closed segment from a to b has a point within one unit of c on each
\* axis: an end point lies in the square around c, or the segment meets one
\* of the square's sides.
NearSegment(a, b, c) ==
  LET sw == Coord(c.X - 1, c.Z - 1)
      se == Coord(c.X + 1, c.Z - 1)
      ne == Coord(c.X + 1, c.Z + 1)
      nw == Coord(c.X - 1, c.Z + 1)
  IN  \/ Abs(a.X - c.X) <= 1 /\ Abs(a.Z - c.Z) <= 1
      \/ Abs(b.X - c.X) <= 1 /\ Abs(b.Z - c.Z) <= 1
      \/ SegmentsMeet(a, b, sw, se) \/ SegmentsMeet(a, b, se, ne)
      \/ SegmentsMeet(a, b, ne, nw) \/ SegmentsMeet(a, b, nw, sw)

\* C21: GetCrossCoord returns ok = true if the two segments have a point in
\* common and ok = false with the zero Coord if they are parallel or have
\* none; when ok = true the returned point lies within one unit of both
\* segments; parallel segments always yield false.
C21_CrossCoordOutcome ==
  op = "GetCrossCoord" =>
    LET p0 == args[1]
        p1 == args[2]
        q0 == args[3]
        q1 == args[4]
        parallel == Cross(NewVector(p0, p1), NewVector(q0, q1)) = 0
    IN  /\ parallel => ~ret.ok
        /\ ~parallel => (ret.ok = SegmentsMeet(p0, p1, q0, q1))
        /\ ~ret.ok => ret.coord = Coord(0, 0)
        /\ ret.ok => NearSegment(p0, p1, ret.coord) /\ NearSegment(q0, q1, ret.coord)

\* ------------------------------------------------------ merge, placement
\* The Go positions in vs of the vertices with the index of p1 or of p2.
SharedPositions(vs, p1, p2) ==
  {i \in 0..(Len(vs) - 1) : At(vs, i).Index \in {p1.Index, p2.Index}}

\* C22: on a successful MergeTriangle(p1, p2, newVertices) with both shared
\* vertices in the polygon, the committed list is the old list with the new
\* vertices, in given or reversed order, as one block: between p1 and p2
\* when these are adjacent in the current ordering (after the last vertex for
\* the wrap-around pair), and at the end of the list otherwise.
C22_MergePlacement ==
  [][op' = "MergeTriangle" /\ ret' = TRUE =>
       LET pos == SharedPositions(Vertices, args'[1], args'[2])
           lo == CHOOSE i \in pos : \A j \in pos : i <= j
           hi == CHOOSE i \in pos : \A j \in pos : i >= j
       IN  Cardinality(pos) = 2 =>
             \E b \in {args'[3], Reverse(args'[3])} :
               IF hi = lo + 1 THEN Vertices' = InsertAfter(Vertices, lo, b)
               ELSE Vertices' = Vertices \o b]_vars

\* C22 as amended: the block is placed between p1 and p2 when these are
\* adjacent in the current ordering (directly after the earlier one, or at
\* the end of the list for the wrap-around pair); when they are not adjacent
\* it is placed directly after the one that comes first in the list, and at
\* the end of the list when that one is the first vertex.
C22_MergePlacementAfterFirst ==
  [][op' = "MergeTriangle" /\ ret' = TRUE =>
       LET pos == SharedPositions(Vertices, args'[1], args'[2])
           lo == CHOOSE i \in pos : \A j \in pos : i <= j
           hi == CHOOSE i \in pos : \A j \in pos : i >= j
       IN  Cardinality(pos) = 2 =>
             \E b \in {args'[3], Reverse(args'[3])} :
               IF hi = lo + 1 \/ lo # 0 THEN Vertices' = InsertAfter(Vertices, lo, b)
               ELSE Vertices' = Vertices \o b]_vars

\* A merge along the second and fourth vertex of a four-vertex polygon has
\* put the new vertex (1,1) after the second vertex.
C22_Witness ==
  /\ op = "MergeTriangle" /\ ret = TRUE
  /\ args[1].Index = 2 /\ args[2].Index = 3 /\ Len(args[3]) = 1
  /\ Vertices = <<Vertice(1, Coord(0, 0)), Vertice(3, Coord(0, 1)), Vertice(5, Coord(1, 1)),
                  Vertice(4, Coord(2, 0)), Vertice(2, Coord(1, 0))>>

\* ---------------------------------------------------------- merge, winding
\* The two lists describe the same cyclic polygon, in either direction.
SameCyclicPolygon(a, b) == IsRotation(a, b) \/ IsRotation(a, Reverse(b))

\* C23: MergeTriangle(p1, p2, newVertices) succeeds on a vertex list exactly
\* when it succeeds on the same list in reversed order, and the two
\* committed lists describe the same cyclic polygon.  Stated for p1 and p2
\* that are both vertices of the polygon.
C23_MergeWindingAgnostic ==
  [][op' = "MergeTriangle" /\ Cardinality(SharedPositions(Vertices, args'[1], args'[2])) = 2 =>
       LET r == MergeTriangle(Reverse(Vertices), args'[1], args'[2], args'[3])
       IN  /\ r.ok = ret'
           /\ ret' => SameCyclicPolygon(r.Vertices, Vertices')]_vars

\* ----------------------------------------------------------- winding order
\* No three consecutive vertices (cyclically) turn clockwise.
CounterClockwise(vs) ==
  \A i \in 0..(Len(vs) - 1) :
    Orient(At(vs, i).Coord, At(vs, (i + 1) % Len(vs)).Coord,
           At(vs, (i + 2) % Len(vs)).Coord) >= 0

\* C24: after CounterClockWiseSort on a polygon that satisfies IsConvex the
\* vertex list is in counter-clockwise order, it is the previous list or its
\* exact reversal, and a second call changes nothing.
C24_SortNormalizesWinding ==
  [][op' = "CounterClockWiseSort" /\ IsConvex(Vertices) =>
       /\ CounterClockwise(Vertices')
       /\ Vertices' \in {Vertices, Reverse(Vertices)}
       /\ CounterClockWiseSort(Vertices') = Vertices']_vars

\* ------------------------------------------------ containment, binary search
\* C25: on a convex polygon IsCoordInside2(p) returns true exactly when p
\* lies inside the polygon or on its boundary; a point collinear with an
\* edge at the first vertex counts as boundary only when it is on that edge.
C25_BinarySearchBoundaryInclusive ==
  (op = "IsCoordInside2" /\ IsConvex(Vertices)) => (ret = InHull(Vertices, args[1]))

\* --------------------------------------------------- containment, ray casting
\* Polygons for the ray-casting query: vertices on the grid 0..RayMax in both
\* axes, so that edges rise by two units and their X-intercepts are truncated.
RayMax == 2

RayCoords == {Coord(x, z) : x \in 0..RayMax, z \in 0..RayMax}

RayVerts == {Vertice(IndexOf(c), c) : c \in RayCoords}

\* Every vertex other than the end points of an edge lies strictly on the
\* same side of that edge: a strictly convex polygon, in either winding.
StrictlyConvex(vs) ==
  \E sgn \in {-1, 1} :
    \A i \in 0..(Len(vs) - 1) : \A k \in 0..(Len(vs) - 1) :
      k \notin {i, (i + 1) % Len(vs)} =>
        sgn * Orient(At(vs, i).Coord, At(vs, (i + 1) % Len(vs)).Coord, At(vs, k).Coord) > 0

\* A triangle as NewConvex leaves it, or a quadrilateral made of two merged
\* triangles.
InitRay ==
  /\ \E n \in 3..4 : \E q \in DistinctSeqs(RayVerts, n) :
       /\ StrictlyConvex(q)
       /\ Vertices = q
       /\ MergeTriangles =
            IF n = 3 THEN <<Triangle(1, q[1], q[2], q[3])>>
            ELSE <<Triangle(1, q[1], q[2], q[3]), Triangle(2, q[1], q[3], q[4])>>
  /\ op = "idle"
  /\ args = <<>>
  /\ ret = Nil

NextRay == \E p \in RayCoords : IsCoordInside1Call(p)

SpecRay == InitRay /\ [][NextRay]_vars

\* C26: with two or more merged triangles IsCoordInside1(p) on a convex
\* polygon returns true exactly when p lies inside the polygon or on its
\* boundary; with exactly one merged triangle the result is that of
\* Triangle.IsCoordInside on that triangle.
C26_RayCastingBoundaryInclusive ==
  op = "IsCoordInside1" =>
    IF Len(MergeTriangles) = 1
    THEN ret = TriangleIsCoordInside(At(MergeTriangles, 0), args[1])
    ELSE ret = InHull(Vertices, args[1])

\* ---------------------------------------------------------------- convexity
\* IsConvex on every list of three or more distinct vertices.
InitConvex ==
  /\ Vertices = <<>>
  /\ MergeTriangles = <<>>
  /\ op = "idle"
  /\ \E n \in 3..MaxVerts : \E q \in DistinctSeqs(Verts, n) : args = <<q>>
  /\ ret = Nil

IsConvexCall ==
  /\ Idle
  /\ ret' = IsConvex(args[1])
  /\ op' = "IsConvex"
  /\ UNCHANGED <<Vertices, MergeTriangles, args>>

NextConvex == IsConvexCall

SpecConvex == InitConvex /\ [][NextConvex]_vars

\* The orientation of the consecutive triple that starts at Go index i.
TripleOrientation(vs, i) ==
  CrossProduct(At(vs, i), At(vs, (i + 1) % Len(vs)), At(vs, (i + 2) % Len(vs)))

\* C27: IsConvex(vertices) returns true exactly when the orientations of all
\* consecutive triples (indices modulo the length) are all > 0 or all <= 0;
\* a collinear triple counts as non-positive.
C27_IsConvexTwoBuckets ==
  op = "IsConvex" =>
    LET vs == args[1]
        idx == 0..(Len(vs) - 1)
    IN  ret = ( \/ \A i \in idx : TripleOrientation(vs, i) > 0
                \/ \A i \in idx : TripleOrientation(vs, i) <= 0 )

\* IsConvex has accepted a clockwise list with a collinear triple.
C27_Witness ==
  /\ op = "IsConvex" /\ ret = TRUE
  /\ \E i \in 0..(Len(args[1]) - 1) : TripleOrientation(args[1], i) = 0
  /\ \E i \in 0..(Len(args[1]) - 1) : TripleOrientation(args[1], i) < 0

\* -------------------------------------------------------------------- lines
\* Points of the plane around the origin: -PlaneMax..PlaneMax in both axes.
PlaneMax == 1

PlaneCoords == {Coord(x, z) : x \in (-PlaneMax)..PlaneMax, z \in (-PlaneMax)..PlaneMax}

\* The line A*x + B*z + C = 0 through a and b.
NewLine(a, b) ==
  [A |-> b.Z - a.Z, B |-> a.X - b.X, C |-> b.X * a.Z - a.X * b.Z]

IsCoordOnLine(l, c) == l.A * c.X + l.B * c.Z + l.C = 0

IsValid(l) == ~((l.A = 0) /\ (l.B = 0)) /\ (l.C = 0)

\* Two points are given; a line is made of them and queried.
InitLine ==
  /\ Vertices = <<>>
  /\ MergeTriangles = <<>>
  /\ op = "idle"
  /\ args \in [1..2 -> PlaneCoords]
  /\ ret = Nil

NewLineCall ==
  /\ Idle
  /\ ret' = NewLine(args[1], args[2])
  /\ op' = "NewLine"
  /\ UNCHANGED <<Vertices, MergeTriangles, args>>

IsValidCall ==
  /\ Idle
  /\ ret' = IsValid(NewLine(args[1], args[2]))
  /\ op' = "Line.IsValid"
  /\ UNCHANGED <<Vertices, MergeTriangles, args>>

IsCoordOnLineCall(c) ==
  /\ Idle
  /\ ret' = IsCoordOnLine(NewLine(args[1], args[2]), c)
  /\ op' = "Line.IsCoordOnLine"
  /\ args' = <<args[1], args[2], c>>
  /\ UNCHANGED <<Vertices, MergeTriangles>>

NextLine ==
  \/ NewLineCall
  \/ IsValidCall
  \/ \E c \in PlaneCoords : IsCoordOnLineCall(c)

SpecLine == InitLine /\ [][NextLine]_vars

\* C28: for distinct points a and b the line NewLine(a, b) is valid and
\* IsCoordOnLine is true for a and for b; IsValid is false only for the
\* degenerate line with A = 0 and B = 0.
C28_LineThroughTwoPoints ==
  /\ op = "Line.IsValid" =>
       /\ args[1] # args[2] => ret = TRUE
       /\ ret = FALSE => (NewLine(args[1], args[2]).A = 0 /\ NewLine(args[1], args[2]).B = 0)
  /\ (op = "Line.IsCoordOnLine" /\ args[1] # args[2] /\ args[3] \in {args[1], args[2]}) =>
       ret = TRUE

\* ------------------------------------------------------------ merge, failure
\* C29: when MergeTriangle returns false the polygon's Vertices and
\* MergeTriangles are unchanged and the caller's newVertices slice has the
\* element order it had before the call.
C29_FailedMergeChangesNothing ==
  [][op' = "MergeTriangle" /\ ret' = FALSE =>
       /\ Vertices' = Vertices
       /\ MergeTriangles' = MergeTriangles
       /\ args'[4] = args'[3]]_vars

\* A merge of two new vertices has failed after a shared vertex was found,
\* so both attempts ran and the slice was reversed twice.
C29_Witness ==
  /\ op = "MergeTriangle" /\ ret = FALSE
  /\ Len(args[3]) = 2
  /\ SharedPositions(Vertices, args[1], args[2]) # {}

\* ------------------------------------------------- binary search, step by step
\* IsCoordInside2 run one loop iteration at a time.  While the search runs,
\* op is "IsCoordInside2.search" and args holds the query point, s, e and the
\* number of iterations done.
Searching == op = "IsCoordInside2.search"

\* A midpoint that does not move away from s.
MidLow(s, e) == s

\* m := (s + e) / 2
Mid(s, e) == (s + e) \div 2

\* A polygon and the first triangle it was made of.
\* ret is a boolean in every state, FALSE until the call returns.
InitSearch ==
  /\ \E q \in Polygons :
       /\ Vertices = q
       /\ MergeTriangles = <<Triangle(1, q[1], q[2], q[3])>>
  /\ op = "idle"
  /\ args = <<>>
  /\ ret = FALSE

\* The part of IsCoordInside2 before the loop: the two early returns, or
\* s := 1, e := numOfVertice - 1.
SearchEnter(p) ==
  /\ Idle
  /\ LET numOfVertice == Len(Vertices)
         vec1 == NewVector(At(Vertices, 0).Coord, At(Vertices, 1).Coord)
         vec2 == NewVector(At(Vertices, 0).Coord, At(Vertices, numOfVertice - 1).Coord)
         vec2Coord == NewVector(At(Vertices, 0).Coord, p)
         cp1 == Cross(vec1, vec2Coord)
         cp2 == Cross(vec2, vec2Coord)
     IN  IF \/ cp1 = 0 /\ LengthLeq(vec2Coord, vec1)
            \/ cp2 = 0 /\ LengthLeq(vec2Coord, vec2)
         THEN op' = "IsCoordInside2" /\ args' = <<p>> /\ ret' = TRUE
         ELSE IF (cp1 > 0) = (cp2 > 0)
         THEN op' = "IsCoordInside2" /\ args' = <<p>> /\ ret' = FALSE
         ELSE /\ op' = "IsCoordInside2.search"
              /\ args' = <<p, 1, numOfVertice - 1, 0>>
              /\ UNCHANGED ret
  /\ UNCHANGED <<Vertices, MergeTriangles>>

\* One iteration of the loop.
SearchStep ==
  /\ Searching
  /\ args[3] # args[2] + 1
  /\ LET p == args[1]
         s == args[2]
         e == args[3]
         target == [Index |-> 0, Coord |-> p]
         vec1 == NewVector(At(Vertices, 0).Coord, At(Vertices, 1).Coord)
         isCounterClockwise == Cross(vec1, NewVector(At(Vertices, 0).Coord, p)) > 0
         m == Mid(s, e)
     IN  IF (CrossProduct(target, At(Vertices, m), At(Vertices, 0)) > 0) = isCounterClockwise
         THEN args' = <<p, s, m, args[4] + 1>>
         ELSE args' = <<p, m, e, args[4] + 1>>
  /\ UNCHANGED <<Vertices, MergeTriangles, op, ret>>

\* The loop is left and the final edge decides.
SearchExit ==
  /\ Searching
  /\ args[3] = args[2] + 1
  /\ op' = "IsCoordInside2"
  /\ args' = <<args[1]>>
  /\ LET p == args[1]
         s == args[2]
         e == args[3]
         vec1 == NewVector(At(Vertices, 0).Coord, At(Vertices, 1).Coord)
         isCounterClockwise == Cross(vec1, NewVector(At(Vertices, 0).Coord, p)) > 0
         vec3 == NewVector(At(Vertices, s).Coord, At(Vertices, e).Coord)
         vecS2Coord == NewVector(At(Vertices, s).Coord, p)
     IN  ret' = ((Cross(vec3, vecS2Coord) > 0) = isCounterClockwise)
  /\ UNCHANGED <<Vertices, MergeTriangles>>

NextSearch ==
  \/ \E p \in QueryCoords : SearchEnter(p)
  \/ SearchStep
  \/ SearchExit

\* The call runs on its caller's thread and is not suspended.  Every step of
\* the call changes op or args.
SpecSearch == InitSearch /\ [][NextSearch]_vars /\ WF_<<op, args>>(NextSearch)

\* The least c with 2^c >= k, for k >= 1.
CeilLog2(k) == CHOOSE c \in 0..k : Pow2(c) >= k /\ (c = 0 \/ Pow2(c - 1) < k)

\* C30: the binary search of IsCoordInside2 terminates for every polygon of
\* at least 3 vertices and every query point; throughout 1 <= s < e <= n - 1,
\* and the number of iterations never exceeds ceil(log2(n - 2)).
C30_SearchTerminatesInBounds ==
  /\ [](Searching =>
          /\ 1 <= args[2] /\ args[2] < args[3] /\ args[3] <= Len(Vertices) - 1
          /\ args[4] <= CeilLog2(Len(Vertices) - 2))
  /\ <>(op = "IsCoordInside2")

\* The step-by-step run returns what IsCoordInside2 returns.
SearchAgrees == op = "IsCoordInside2" => ret = IsCoordInside2(Vertices, args[1])

\* The search on a five-vertex polygon has taken two iterations.
C30_Witness ==
  Searching /\ Len(Vertices) = 5 /\ args[4] = 2 /\ args[3] = args[2] + 1

====
